---- MODULE Spec2Model ----
(***************************************************************************)
(* Model of the ingestion pipeline of tcga-gene-expression-final:          *)
(* processor.py (read_tsv_file, extract_gene_expressions,                  *)
(* transform_to_patient_centric, process_tsv_file,                         *)
(* process_tcga_format_file, process_standard_format_file,                 *)
(* merge_with_clinical_data, calculate_pathway_score), the run of app.py   *)
(* process_and_store_data and the functions of database.py.                *)
(* Spec is one call of process_tsv_file, RunSpec one run of                *)
(* process_and_store_data, CallSpec one call of the merger or the scorer   *)
(* on values, HeapSpec the same call on Python objects, DbSpec a series of *)
(* calls of the functions of database.py on one collection.                *)
(*                                                                         *)
(* Strings are sequences of one-character strings, so that upper-casing,   *)
(* containment and splitting are computed character by character.          *)
(* A cell of a DataFrame is a record [k, n, s]: k = "num" for a value that *)
(* float() accepts and that is not NaN (n is the value), k = "nan" for     *)
(* NaN (an empty cell, "n/a", "NA", ...), k = "str" for a string float()   *)
(* rejects (s is the string).                                              *)
(***************************************************************************)
EXTENDS Integers, Sequences, FiniteSets, TLC

VARIABLES
    files,            \* app.py: the file_info entries the loop has not reached
    file,             \* the file process_tsv_file is working on
    batch_size,       \* processor.py BATCH_SIZE
    pc,               \* position in process_and_store_data / process_tsv_file
    df,               \* process_tcga_format_file: df after set_index
    selected_genes,   \* process_tcga_format_file: selected_genes
    gene_df,          \* process_tcga_format_file: gene_df
    filtered_df,      \* process_standard_format_file: filtered_df
    format,           \* process_tsv_file: is_tcga_format ("unset" before it is computed)
    i,                \* process_tcga_format_file: batch offset i
    patients,         \* value returned by process_tsv_file (all_patients of the TCGA path)
    all_patients,     \* app.py: all_patients
    include_clinical, \* app.py: include_clinical
    clinical,         \* the clinical download: whether it succeeds, and the file
    stored,           \* the arguments of the calls of insert_patient_data
    results,          \* the files processed so far with what process_tsv_file returned
    collection,       \* database.py: the documents of the MongoDB collection
    arg,              \* the list a call of the merger or of the scorer is given
    id_column,        \* merge_with_clinical_data: id_column (<<>> for None)
    ret,              \* what that call returned, or that it raised
    heap,             \* the Python objects of a call: lists and dicts by address
    before,           \* the heap when the call began
    in_list,          \* address of the list the call is given
    out_list,         \* address of the list the call returned (0: none)
    indexes,          \* database.py: the names of the indexes of the collection
    requests          \* the get_collection calls: the caller, the create_index requests

procVars == <<df, selected_genes, gene_df, filtered_df, format, i, patients>>

appVars == <<files, all_patients, include_clinical, clinical, stored, results,
             collection>>

heapVars == <<heap, before, in_list, out_list>>

callVars == <<arg, id_column, ret, heapVars>>

dbVars == <<indexes, requests>>

vars == <<file, batch_size, pc, procVars, appVars, callVars, dbVars>>

----------------------------------------------------------------------------
(* Bounds of the model *)

MaxRows == 2
MaxBatch == 3
MaxFiles == 2
MaxPatients == 2
MaxClinicalRows == 2
MaxCalls == 3
MaxDocs == 3

----------------------------------------------------------------------------
(* Strings *)

Lower == <<"a","b","c","d","e","f","g","h","i","j","k","l","m",
           "n","o","p","q","r","s","t","u","v","w","x","y","z">>
UpperOf == <<"A","B","C","D","E","F","G","H","I","J","K","L","M",
             "N","O","P","Q","R","S","T","U","V","W","X","Y","Z">>

\* str.upper() on one character
UpperChar(c) ==
    IF \E j \in 1..26 : Lower[j] = c
    THEN UpperOf[CHOOSE j \in 1..26 : Lower[j] = c]
    ELSE c

\* str.upper()
Upper(s) == [j \in 1..Len(s) |-> UpperChar(s[j])]

\* Python's `needle in hay` on strings
Contains(hay, needle) ==
    \E j \in 0..(Len(hay) - Len(needle)) :
        SubSeq(hay, j + 1, j + Len(needle)) = needle

\* decimal digits of a natural number, as a string
RECURSIVE Digits(_)
Digits(n) ==
    LET d == <<"0","1","2","3","4","5","6","7","8","9">>[(n % 10) + 1]
    IN IF n < 10 THEN <<d>> ELSE Append(Digits(n \div 10), d)

----------------------------------------------------------------------------
(* Cells *)

NumV(n) == [k |-> "num", n |-> n, s |-> <<>>]
NaNV    == [k |-> "nan", n |-> 0, s |-> <<>>]
StrV(s) == [k |-> "str", n |-> 0, s |-> s]

\* isinstance(idx, str)
IsStr(v) == v.k = "str"

----------------------------------------------------------------------------
(* Configuration *)

C6orf150 == <<"C","6","o","r","f","1","5","0">>
TMEM173  == <<"T","M","E","M","1","7","3">>
CCL5     == <<"C","C","L","5">>
CXCL10   == <<"C","X","C","L","1","0">>
CXCL9    == <<"C","X","C","L","9">>
CXCL11   == <<"C","X","C","L","1","1">>
NFKB1    == <<"N","F","K","B","1">>
IKBKE    == <<"I","K","B","K","E">>
IRF3     == <<"I","R","F","3">>
TREX1    == <<"T","R","E","X","1">>
ATM      == <<"A","T","M">>
IL6      == <<"I","L","6">>
CXCL8    == <<"C","X","C","L","8">>

TARGET_GENES ==
    <<C6orf150, TMEM173, CCL5, CXCL10, CXCL9, CXCL11, NFKB1, IKBKE, IRF3,
      TREX1, ATM, IL6, CXCL8>>

TargetSet == {TARGET_GENES[j] : j \in 1..Len(TARGET_GENES)}

Sample == <<"s","a","m","p","l","e">>

\* the column-count threshold of the format test
WideColumns == 100

\* the row cap of the sniffing read
SniffRows == 10

----------------------------------------------------------------------------
(* Sequence helpers *)

RECURSIVE Flatten(_)
Flatten(ss) == IF ss = <<>> THEN <<>> ELSE Head(ss) \o Flatten(Tail(ss))

\* [f(x) for x in s if p(x)], for s a sequence
SelectIdx(n, P(_)) ==
    LET S == {j \in 1..n : P(j)}
    IN [k \in 1..Cardinality(S) |->
            CHOOSE j \in S : Cardinality({m \in S : m < j}) = k - 1]

Range(s) == {s[j] : j \in 1..Len(s)}

----------------------------------------------------------------------------
(* DataFrames: [index, columns, data], data[r][c] the cell of row r in     *)
(* column c.  Column labels and index labels are cells.                    *)

EmptyDF == [index |-> <<>>, columns |-> <<>>, data |-> <<>>]

\* DataFrame.empty: some axis has length 0
IsEmpty(d) == Len(d.index) = 0 \/ Len(d.columns) = 0

\* the default index of a frame read by pd.read_csv
RangeIndex(n) == [r \in 1..n |-> NumV(r - 1)]

Min(a, b) == IF a < b THEN a ELSE b

\* read_tsv_file keeping the row cap of the sniffing read on every read
read_tsv_file_AlwaysCapped(t, ok, nrows) ==
    IF ~ok THEN [none |-> TRUE, df |-> EmptyDF]
    ELSE LET n == Min(SniffRows, Len(t.data))
         IN [none |-> FALSE,
             df |-> [index   |-> RangeIndex(n),
                     columns |-> [c \in 1..Len(t.columns) |-> StrV(t.columns[c])],
                     data    |-> SubSeq(t.data, 1, n)]]

\* read_tsv_file(file_path, nrows): ok is whether pd.read_csv succeeds on
\* this call; nrows < 0 stands for nrows=None.  The result is
\* [none |-> TRUE] for None.
read_tsv_file(t, ok, nrows) ==
    IF ~ok THEN [none |-> TRUE, df |-> EmptyDF]
    ELSE LET n == IF nrows < 0 THEN Len(t.data) ELSE Min(nrows, Len(t.data))
         IN [none |-> FALSE,
             df |-> [index   |-> RangeIndex(n),
                     columns |-> [c \in 1..Len(t.columns) |-> StrV(t.columns[c])],
                     data    |-> SubSeq(t.data, 1, n)]]

\* os.path.basename(file_path) leaving the directories in
Basename_Whole(path) == path

\* os.path.basename(file_path)
Basename(path) ==
    LET slashes == {j \in 1..Len(path) : path[j] = "/"}
        last == IF slashes = {} THEN 0
                ELSE CHOOSE j \in slashes : \A m \in slashes : m <= j
    IN SubSeq(path, last + 1, Len(path))

\* os.path.basename(file_path).split('_')[0]
CohortName(path) ==
    LET b == Basename(path)
        us == {j \in 1..Len(b) : b[j] = "_"}
        first == IF us = {} THEN Len(b) + 1
                 ELSE CHOOSE j \in us : \A m \in us : j <= m
    IN SubSeq(b, 1, first - 1)

\* the format test taking a table of exactly 100 columns for a TCGA table
IsTcgaFormat_AtLeast(sample_df) ==
    \/ StrV(Sample) \in Range(sample_df.columns)
    \/ Len(sample_df.columns) >= WideColumns

\* is_tcga_format = 'sample' in sample_df.columns or sample_df.shape[1] > 100
IsTcgaFormat(sample_df) ==
    \/ StrV(Sample) \in Range(sample_df.columns)
    \/ Len(sample_df.columns) > WideColumns

----------------------------------------------------------------------------
(* process_tcga_format_file *)

\* position of a column label
ColPos(d, label) == CHOOSE c \in 1..Len(d.columns) : d.columns[c] = label

\* df.set_index('sample')
SetIndex(d, label) ==
    LET p == ColPos(d, label)
        keep == SelectIdx(Len(d.columns), LAMBDA c : c # p)
    IN [index   |-> [r \in 1..Len(d.data) |-> d.data[r][p]],
        columns |-> [j \in 1..Len(keep) |-> d.columns[keep[j]]],
        data    |-> [r \in 1..Len(d.data) |->
                        [j \in 1..Len(keep) |-> d.data[r][keep[j]]]]]

\* if df.columns[0] != 'sample' and 'sample' in df.columns: df = df.set_index('sample')
TcgaIndexed(d) ==
    IF d.columns[1] # StrV(Sample) /\ StrV(Sample) \in Range(d.columns)
    THEN SetIndex(d, StrV(Sample))
    ELSE d

\* gene.upper() == idx.upper()
EqualsIgnoreCase(gene, label) == Upper(gene) = Upper(label)

\* ContainsIgnoreCase with the operands of `in` exchanged
ContainsIgnoreCase_Swapped(label, gene) == Contains(Upper(gene), Upper(label))

\* gene.upper() in idx.upper()
ContainsIgnoreCase(label, gene) == Contains(Upper(label), Upper(gene))

\* the loop over TARGET_GENES: exact label, else first case-insensitive label
SelectExact(d) ==
    Flatten([g \in 1..Len(TARGET_GENES) |->
        LET gene == TARGET_GENES[g]
            ci == SelectIdx(Len(d.index),
                    LAMBDA r : IsStr(d.index[r])
                               /\ EqualsIgnoreCase(gene, d.index[r].s))
        IN IF StrV(gene) \in Range(d.index) THEN <<gene>>
           ELSE IF ci # <<>> THEN <<d.index[ci[1]].s>>
           ELSE <<>>])

\* the fallback loop: every (idx, gene) with gene.upper() in idx.upper()
SelectSimilar(d) ==
    Flatten([r \in 1..Len(d.index) |->
        Flatten([g \in 1..Len(TARGET_GENES) |->
            IF IsStr(d.index[r])
               /\ ContainsIgnoreCase(d.index[r].s, TARGET_GENES[g])
            THEN <<d.index[r].s>> ELSE <<>>])])

\* selected_genes as it stands at line 270
SelectedGenes(d) ==
    IF SelectExact(d) # <<>> THEN SelectExact(d) ELSE SelectSimilar(d)

\* df.loc[selected_genes]: for each label of the list, the rows carrying it
Loc(d, labels) ==
    LET rows == Flatten([j \in 1..Len(labels) |->
                    SelectIdx(Len(d.index),
                        LAMBDA r : d.index[r] = StrV(labels[j]))])
    IN [index   |-> [j \in 1..Len(rows) |-> d.index[rows[j]]],
        columns |-> d.columns,
        data    |-> [j \in 1..Len(rows) |-> d.data[rows[j]]]]

\* TcgaCell without the np.isnan test
TcgaCell_KeepNaN(gd, gene, c) ==
    LET rows == SelectIdx(Len(gd.index), LAMBDA r : gd.index[r] = StrV(gene))
    IN IF Len(rows) # 1 THEN [skip |-> TRUE, v |-> NaNV]
       ELSE LET cell == gd.data[rows[1]][c]
            IN IF cell.k = "num" THEN [skip |-> FALSE, v |-> NumV(cell.n)]
               ELSE IF cell.k = "nan" THEN [skip |-> FALSE, v |-> NaNV]
               ELSE [skip |-> TRUE, v |-> NaNV]

\* float(gene_df.loc[gene, patient_id]) and the NaN test: the value stored,
\* or "skip" when the cell is NaN or float() raises; .loc yields a Series
\* (TypeError in float) when the label is carried by several rows.
TcgaCell(gd, gene, c) ==
    LET rows == SelectIdx(Len(gd.index), LAMBDA r : gd.index[r] = StrV(gene))
    IN IF Len(rows) # 1 THEN [skip |-> TRUE, v |-> NaNV]
       ELSE LET cell == gd.data[rows[1]][c]
            IN IF cell.k = "num" THEN [skip |-> FALSE, v |-> NumV(cell.n)]
               ELSE IF cell.k = "nan" THEN [skip |-> TRUE, v |-> NaNV]
               ELSE [skip |-> TRUE, v |-> NaNV]

\* the gene_expressions dict built for one patient column of gene_df
TcgaExpressions(gd, sel, c) ==
    LET keys == {g \in Range(sel) : ~TcgaCell(gd, g, c).skip}
    IN [g \in keys |-> TcgaCell(gd, g, c).v]

\* the patient_data dict of one column
TcgaPatient(gd, sel, c, cohort) ==
    [patient_id       |-> gd.columns[c],
     cancer_cohort    |-> cohort,
     gene_expressions |-> TcgaExpressions(gd, sel, c)]

\* BatchColumns with the slice gene_df.columns[i+1:i+BATCH_SIZE]
BatchColumns_SkipFirst(ncols, off, size) ==
    [j \in 1..(Min(off + size, ncols) - off - 1) |-> off + 1 + j]

\* batch_columns = gene_df.columns[i:i+BATCH_SIZE], as column positions
BatchColumns(ncols, off, size) ==
    [j \in 1..(Min(off + size, ncols) - off) |-> off + j]

\* BatchPatients without the test of an empty gene_expressions
BatchPatients_KeepEmpty(gd, sel, cols, cohort) ==
    [j \in 1..Len(cols) |-> TcgaPatient(gd, sel, cols[j], cohort)]

\* batch_patients: the records of one batch, patients with an empty dict left out
BatchPatients(gd, sel, cols, cohort) ==
    LET keep == SelectIdx(Len(cols),
                    LAMBDA j : DOMAIN TcgaExpressions(gd, sel, cols[j]) # {})
    IN [j \in 1..Len(keep) |-> TcgaPatient(gd, sel, cols[keep[j]], cohort)]

----------------------------------------------------------------------------
(* extract_gene_expressions / transform_to_patient_centric *)

\* str(value) of astype(str)
AsStr(v) ==
    IF v.k = "str" THEN v.s
    ELSE IF v.k = "nan" THEN <<"n","a","n">>
    ELSE Digits(v.n)

\* df[gene_column] = df[gene_column].astype(str)
GeneColumnAsStr(d) ==
    [d EXCEPT !.data = [r \in 1..Len(d.data) |->
        [d.data[r] EXCEPT ![1] = StrV(AsStr(d.data[r][1]))]]]

\* rows whose gene column is in target_genes
RowsExact(d) ==
    SelectIdx(Len(d.data), LAMBDA r : d.data[r][1].s \in TargetSet)

\* rows whose gene column, upper-cased, is an upper-cased target gene
RowsIgnoreCase(d) ==
    SelectIdx(Len(d.data),
        LAMBDA r : \E g \in TargetSet : EqualsIgnoreCase(g, d.data[r][1].s))

\* for gene in target_genes: rows matching .*gene.* with case=False
RowsPartial(d) ==
    Flatten([g \in 1..Len(TARGET_GENES) |->
        SelectIdx(Len(d.data),
            LAMBDA r : ContainsIgnoreCase(d.data[r][1].s, TARGET_GENES[g]))])

\* RowsMatched adding the partial matches to the case-insensitive ones
RowsMatched_AlwaysPartial(d) ==
    IF RowsExact(d) # <<>> THEN RowsExact(d)
    ELSE RowsIgnoreCase(d) \o RowsPartial(d)

\* the rows filtered_df holds after the three row strategies
RowsMatched(d) ==
    IF RowsExact(d) # <<>> THEN RowsExact(d)
    ELSE IF RowsIgnoreCase(d) # <<>> THEN RowsIgnoreCase(d)
    ELSE RowsPartial(d)

\* GeneCols without the case-insensitive search
GeneCols_ExactOnly(d) ==
    Flatten([g \in 1..Len(TARGET_GENES) |->
        IF StrV(TARGET_GENES[g]) \in Range(d.columns)
        THEN <<StrV(TARGET_GENES[g])>> ELSE <<>>])

\* gene_cols: exact column, else every case-insensitive column
GeneCols(d) ==
    Flatten([g \in 1..Len(TARGET_GENES) |->
        LET gene == TARGET_GENES[g]
            ci == SelectIdx(Len(d.columns),
                    LAMBDA c : EqualsIgnoreCase(gene, AsStr(d.columns[c])))
        IN IF StrV(gene) \in Range(d.columns) THEN <<StrV(gene)>>
           ELSE [j \in 1..Len(ci) |-> d.columns[ci[j]]]])

GeneHeader == <<"G","e","n","e">>

\* new_df: one row per gene column, one column per row of df
GenesAsColumns(d) ==
    LET gc == GeneCols(d)
    IN [index   |-> RangeIndex(Len(gc)),
        columns |-> <<StrV(GeneHeader)>> \o d.index,
        data    |-> [j \in 1..Len(gc) |->
                        <<gc[j]>> \o [r \in 1..Len(d.data) |->
                                         d.data[r][ColPos(d, gc[j])]]]]

\* extract_gene_expressions(df); the index of a frame read by read_tsv_file
\* is a RangeIndex, which has no .str accessor, so the index strategy is
\* never entered
extract_gene_expressions(d0) ==
    IF IsEmpty(d0) THEN EmptyDF
    ELSE LET d == GeneColumnAsStr(d0)
             rows == RowsMatched(d)
         IN IF rows # <<>>
            THEN [index   |-> [j \in 1..Len(rows) |-> d.index[rows[j]]],
                  columns |-> d.columns,
                  data    |-> [j \in 1..Len(rows) |-> d.data[rows[j]]]]
            ELSE IF GeneCols(d) # <<>> THEN GenesAsColumns(d)
            ELSE EmptyDF

\* StandardCell with a failed conversion turned into NaN
StandardCell_Coerce(cell) ==
    IF cell.k = "num" THEN NumV(cell.n) ELSE NaNV

\* try: float(expression) except: str(expression); float() accepts NaN
StandardCell(cell) ==
    IF cell.k = "num" THEN NumV(cell.n)
    ELSE IF cell.k = "nan" THEN NaNV
    ELSE StrV(AsStr(cell))

\* patient_data["gene_expressions"] after the iterrows loop: a later row
\* with the same gene overwrites an earlier one
StandardExpressions(d, c) ==
    LET keys == {d.data[r][1].s : r \in 1..Len(d.data)}
        lastRow(g) == CHOOSE r \in 1..Len(d.data) :
                        /\ d.data[r][1].s = g
                        /\ \A m \in 1..Len(d.data) : d.data[m][1].s = g => m <= r
    IN [g \in keys |-> StandardCell(d.data[lastRow(g)][c])]

\* transform_to_patient_centric(df, cohort_name)
transform_to_patient_centric(d, cohort) ==
    IF IsEmpty(d) THEN <<>>
    ELSE [j \in 1..(Len(d.columns) - 1) |->
            [patient_id       |-> d.columns[j + 1],
             cancer_cohort    |-> cohort,
             gene_expressions |-> StandardExpressions(d, j + 1)]]

----------------------------------------------------------------------------
(* merge_with_clinical_data *)

COL_patient_id == <<"p","a","t","i","e","n","t","_","i","d">>
COL_bcr        == <<"b","c","r","_","p","a","t","i","e","n","t","_","b","a","r","c","o","d","e">>
COL_PATIENT    == <<"_","P","A","T","I","E","N","T">>
COL_PATIENT_ID == <<"P","A","T","I","E","N","T","_","I","D">>

possible_id_columns ==
    <<COL_patient_id, Sample, COL_bcr, COL_PATIENT, COL_PATIENT_ID>>

\* IdColumn taking the first column of the table that is a possible name
IdColumn_TableOrder(cdf) ==
    LET present == SelectIdx(Len(cdf.columns),
                     LAMBDA c : \E j \in 1..Len(possible_id_columns) :
                                    cdf.columns[c] = StrV(possible_id_columns[j]))
    IN IF present = <<>> THEN <<>> ELSE cdf.columns[present[1]].s

\* the first name of possible_id_columns among the columns; <<>> for None
IdColumn(cdf) ==
    LET present == SelectIdx(Len(possible_id_columns),
                     LAMBDA j : StrV(possible_id_columns[j]) \in Range(cdf.columns))
    IN IF present = <<>> THEN <<>> ELSE possible_id_columns[present[1]]

\* row.to_dict()
RowDict(cdf, r) ==
    [l \in {cdf.columns[c].s : c \in 1..Len(cdf.columns)} |->
        cdf.data[r][ColPos(cdf, StrV(l))]]

\* two identifier values are the same dict key (a NaN is equal to nothing)
SameKey(a, b) == a.k # "nan" /\ a = b

\* clinical_dict keeping, for an identifier of several rows, the first row
ClinicalDict_FirstRow(cdf, idcol) ==
    LET p == ColPos(cdf, StrV(idcol))
        firsts == SelectIdx(Len(cdf.data),
                    LAMBDA r : \A m \in 1..(r - 1) :
                        ~SameKey(cdf.data[m][p], cdf.data[r][p]))
    IN [j \in 1..Len(firsts) |->
            [id |-> cdf.data[firsts[j]][p], row |-> RowDict(cdf, firsts[j])]]

\* clinical_dict, as its entries in insertion order: a key enters at its
\* first row and holds the dict of its last row
ClinicalDict(cdf, idcol) ==
    LET p == ColPos(cdf, StrV(idcol))
        firsts == SelectIdx(Len(cdf.data),
                    LAMBDA r : \A m \in 1..(r - 1) :
                        ~SameKey(cdf.data[m][p], cdf.data[r][p]))
        lastOf(r) == CHOOSE m \in r..Len(cdf.data) :
                        /\ (m = r \/ SameKey(cdf.data[m][p], cdf.data[r][p]))
                        /\ \A q \in (m + 1)..Len(cdf.data) :
                                ~SameKey(cdf.data[q][p], cdf.data[r][p])
    IN [j \in 1..Len(firsts) |->
            [id |-> cdf.data[firsts[j]][p], row |-> RowDict(cdf, lastOf(firsts[j]))]]

\* the search of a clinical record for one patient: "hit" with the entry,
\* "none", or "raise" when `in` meets an operand that is not a string
RECURSIVE PartialMatch(_, _, _)
PartialMatch(pid, dict, j) ==
    IF j > Len(dict) THEN [kind |-> "none", at |-> 0]
    ELSE IF ~(IsStr(pid) /\ IsStr(dict[j].id)) THEN [kind |-> "raise", at |-> j]
    ELSE IF Contains(dict[j].id.s, pid.s) \/ Contains(pid.s, dict[j].id.s)
         THEN [kind |-> "hit", at |-> j]
    ELSE PartialMatch(pid, dict, j + 1)

FindClinical(pid, dict) ==
    LET exact == SelectIdx(Len(dict), LAMBDA j : SameKey(dict[j].id, pid))
    IN IF exact # <<>> THEN [kind |-> "hit", at |-> exact[1]]
       ELSE PartialMatch(pid, dict, 1)

\* patient.copy() with one more key
WithField(rec, name, value) ==
    [f \in DOMAIN rec \cup {name} |-> IF f = name THEN value ELSE rec[f]]

\* merge_with_clinical_data returning an empty list when it has no clinical
\* table or no identifier column
merge_with_clinical_data_ReturnEmpty(gene_data, clin) ==
    LET rd == read_tsv_file(clin.table, clin.read_ok, -1)
        idcol == IdColumn(rd.df)
        dict == ClinicalDict(rd.df, idcol)
        found(j) == FindClinical(gene_data[j].patient_id, dict)
    IN IF rd.none \/ idcol = <<>> THEN [raised |-> FALSE, out |-> <<>>]
       ELSE IF \E j \in 1..Len(gene_data) : found(j).kind = "raise"
            THEN [raised |-> TRUE, out |-> <<>>]
       ELSE [raised |-> FALSE,
             out |-> [j \in 1..Len(gene_data) |->
                        IF found(j).kind = "hit"
                        THEN WithField(gene_data[j], "clinical_data",
                                       dict[found(j).at].row)
                        ELSE gene_data[j]]]

\* merge_with_clinical_data(gene_data, clinical_file_path): the list
\* returned, or raised = TRUE when an exception leaves the function
merge_with_clinical_data(gene_data, clin) ==
    LET rd == read_tsv_file(clin.table, clin.read_ok, -1)
        idcol == IdColumn(rd.df)
        dict == ClinicalDict(rd.df, idcol)
        found(j) == FindClinical(gene_data[j].patient_id, dict)
    IN IF rd.none \/ idcol = <<>> THEN [raised |-> FALSE, out |-> gene_data]
       ELSE IF \E j \in 1..Len(gene_data) : found(j).kind = "raise"
            THEN [raised |-> TRUE, out |-> <<>>]
       ELSE [raised |-> FALSE,
             out |-> [j \in 1..Len(gene_data) |->
                        IF found(j).kind = "hit"
                        THEN WithField(gene_data[j], "clinical_data",
                                       dict[found(j).at].row)
                        ELSE gene_data[j]]]

----------------------------------------------------------------------------
(* calculate_pathway_score; a score is None or a fraction num/den in       *)
(* lowest terms                                                            *)

RECURSIVE GCD(_, _)
GCD(a, b) == IF b = 0 THEN a ELSE GCD(b, a % b)

Abs(a) == IF a < 0 THEN -a ELSE a

NoneScore == [none |-> TRUE, num |-> 0, den |-> 1]

Frac(n, d) ==
    LET g == GCD(Abs(n), d)
    IN [none |-> FALSE, num |-> n \div g, den |-> d \div g]

pathway_genes ==
    [cGAS_activation       |-> <<C6orf150, TMEM173>>,
     inflammatory_response |-> <<CCL5, CXCL10, CXCL9, CXCL11, IL6, CXCL8>>,
     signaling             |-> <<NFKB1, IKBKE, IRF3, TREX1, ATM>>]

RECURSIVE SumSeq(_)
SumSeq(q) == IF q = <<>> THEN 0 ELSE Head(q) + SumSeq(Tail(q))

\* GroupScore dividing by the number of genes of the pathway
GroupScore_DivideByGroup(gene_expressions, genes) ==
    LET idx == SelectIdx(Len(genes),
                 LAMBDA j : /\ genes[j] \in DOMAIN gene_expressions
                            /\ gene_expressions[genes[j]].k = "num")
        values == [j \in 1..Len(idx) |-> gene_expressions[genes[idx[j]]].n]
    IN IF values = <<>> THEN NoneScore ELSE Frac(SumSeq(values), Len(genes))

\* np.mean of the numeric, non-NaN values of the genes of one pathway
GroupScore(gene_expressions, genes) ==
    LET idx == SelectIdx(Len(genes),
                 LAMBDA j : /\ genes[j] \in DOMAIN gene_expressions
                            /\ gene_expressions[genes[j]].k = "num")
        values == [j \in 1..Len(idx) |-> gene_expressions[genes[idx[j]]].n]
    IN IF values = <<>> THEN NoneScore ELSE Frac(SumSeq(values), Len(values))

\* Weighted with the weights of the last two pathways exchanged
Weighted_Swapped(a, b, c) ==
    Frac(2 * a.num * b.den * c.den + b.num * a.den * c.den
            + 2 * c.num * a.den * b.den,
         5 * a.den * b.den * c.den)

\* a * 0.4 + b * 0.4 + c * 0.2
Weighted(a, b, c) ==
    Frac(2 * a.num * b.den * c.den + 2 * b.num * a.den * c.den
            + c.num * a.den * b.den,
         5 * a.den * b.den * c.den)

PathwayScores(gene_expressions) ==
    LET a == GroupScore(gene_expressions, pathway_genes.cGAS_activation)
        b == GroupScore(gene_expressions, pathway_genes.inflammatory_response)
        c == GroupScore(gene_expressions, pathway_genes.signaling)
    IN [cGAS_activation       |-> a,
        inflammatory_response |-> b,
        signaling             |-> c,
        overall |-> IF a.none \/ b.none \/ c.none THEN NoneScore
                    ELSE Weighted(a, b, c)]

\* calculate_pathway_score(patient_data)
calculate_pathway_score(patient_data) ==
    [j \in 1..Len(patient_data) |->
        WithField(patient_data[j], "pathway_scores",
                  PathwayScores(patient_data[j].gene_expressions))]

----------------------------------------------------------------------------
(* Inputs *)

ATM_lower  == <<"a","t","m">>
ATM_472    == <<"A","T","M","|","4","7","2">>
ATM_mixed  == <<"A","t","m">>
TMEM_lower == <<"t","m","e","m","1","7","3">>
GeneX      == <<"G","e","n","e","_","X">>
AT         == <<"A","T">>
IL6_lower  == <<"i","l","6">>
IdHeader   == <<"i","d">>

\* labels a gene (or identifier) column may hold
RowLabels == {ATM, ATM_lower, ATM_mixed, ATM_472, TMEM_lower, GeneX, AT}

\* the name of the j-th patient column
PatientName(j) == <<"P">> \o Digits(j)

PatientNames(n) == [j \in 1..n |-> PatientName(j)]

\* values a data cell may hold
CellValues == {NumV(2), NaNV, StrV(<<"x">>)}

\* a table: the header, the position of the label column, the labels of
\* the rows, and the data cells, which repeat a two-cell pattern along each
\* row, shifted by rot from one row to the next
MkTable(columns, labelPos, labels, pat, rot) ==
    [columns |-> columns,
     data    |-> [r \in 1..Len(labels) |->
                    [c \in 1..Len(columns) |->
                        IF c = labelPos THEN StrV(labels[r])
                        ELSE pat[((c + rot * r) % 2) + 1]]]]

\* headers of at most WideColumns columns
NarrowLayouts ==
    { [columns |-> <<GeneHeader>> \o PatientNames(2), labelPos |-> 1],
      [columns |-> <<Sample>> \o PatientNames(2), labelPos |-> 1],
      [columns |-> <<PatientName(0), Sample>> \o PatientNames(2), labelPos |-> 2],
      [columns |-> <<IdHeader, ATM, IL6_lower>>, labelPos |-> 1] }

\* headers of more than WideColumns columns
WideLayouts ==
    { [columns |-> <<Sample>> \o PatientNames(150), labelPos |-> 1],
      [columns |-> <<GeneHeader>> \o PatientNames(WideColumns - 1), labelPos |-> 1],
      [columns |-> <<GeneHeader>> \o PatientNames(WideColumns), labelPos |-> 1],
      [columns |-> <<IdHeader, ATM>> \o PatientNames(WideColumns), labelPos |-> 1] }

LabelSeqs(n) == UNION {[1..m -> RowLabels] : m \in 0..n}

Tables(layouts, n) ==
    { MkTable(l.columns, l.labelPos, labels, pat, rot) :
        l \in layouts, labels \in LabelSeqs(n),
        pat \in [1..2 -> CellValues], rot \in {0, 1} }

\* the labels of a table longer than the sniffing read: a label equal to a
\* target gene ignoring case at the first row, the target gene after the
\* last row the sniffing read takes
LongLabels ==
    [r \in 1..(SniffRows + 1) |->
        IF r = 1 THEN ATM_lower ELSE IF r = SniffRows + 1 THEN ATM ELSE GeneX]

PathA == <<"d","/","B","R","_","x">>
PathB == <<"L","U","A","D">>
PathC == <<"d","/","B","R","_","y">>
PathD == <<"a","_","b","/","B","R","_","x","_","y">>
PathE == <<"d","/","T",".","t">>
PathF == <<"_","x">>

\* a file: its path, its content, and whether pd.read_csv succeeds on the
\* sniffing read and on the full read
MkFile(path, t, sniff_ok, full_ok) ==
    [path |-> path, table |-> t, sniff_ok |-> sniff_ok, full_ok |-> full_ok]

NoFile == MkFile(<<>>, [columns |-> <<>>, data |-> <<>>], FALSE, FALSE)

FileInputs ==
    {MkFile(PathA, t, TRUE, TRUE) : t \in Tables(NarrowLayouts, MaxRows)}
    \cup {MkFile(PathB, t, TRUE, TRUE) : t \in Tables(WideLayouts, 1)}
    \cup {MkFile(PathB, t, ok[1], ok[2]) :
            t \in Tables(NarrowLayouts, 0),
            ok \in {<<FALSE, FALSE>>, <<TRUE, FALSE>>}}
    \cup {MkFile(path, MkTable(<<GeneHeader>> \o PatientNames(2), 1, <<ATM>>,
                               <<NumV(2), StrV(<<"x">>)>>, 0), TRUE, TRUE) :
            path \in {PathD, PathE, PathF}}
    \cup {MkFile(PathA, MkTable(l.columns, l.labelPos, LongLabels,
                                <<NumV(2), StrV(<<"x">>)>>, 0), TRUE, TRUE) :
            l \in NarrowLayouts}

\* a clinical download: whether download_clinical_data returns a path,
\* whether pd.read_csv succeeds on it, and the content
MkClinical(downloaded, read_ok, t) ==
    [downloaded |-> downloaded, read_ok |-> read_ok, table |-> t]

NoClinical == MkClinical(FALSE, FALSE, [columns |-> <<>>, data |-> <<>>])

----------------------------------------------------------------------------
(* process_tsv_file, step by step *)

\* Return handing back a list shared with the caller, extended by recs
Return_Extend(recs) ==
    /\ patients' = all_patients \o recs
    /\ pc' = "returned"

Return(recs) ==
    /\ patients' = recs
    /\ pc' = "returned"

\* process_tsv_file up to the choice of the format path
SniffAndRoute ==
    /\ pc = "start"
    /\ LET sample == read_tsv_file(file.table, file.sniff_ok, SniffRows)
       IN IF sample.none
          THEN /\ Return(<<>>)
               /\ UNCHANGED format
          ELSE /\ format' = IF IsTcgaFormat(sample.df) THEN "tcga" ELSE "standard"
               /\ pc' = format'
               /\ UNCHANGED patients
    /\ UNCHANGED <<file, batch_size, df, selected_genes, gene_df, filtered_df, i,
                   appVars>>
    /\ UNCHANGED callVars
    /\ UNCHANGED dbVars

\* process_tcga_format_file up to gene_df
TcgaPrepare ==
    /\ pc = "tcga"
    /\ LET full == read_tsv_file(file.table, file.full_ok, -1)
           d == TcgaIndexed(full.df)
           sel == SelectedGenes(d)
       IN IF full.none \/ sel = <<>>
          THEN /\ Return(<<>>)
               /\ UNCHANGED <<df, selected_genes, gene_df, i>>
          ELSE /\ df' = d
               /\ selected_genes' = sel
               /\ gene_df' = Loc(d, sel)
               /\ i' = 0
               /\ patients' = <<>>
               /\ pc' = "batch"
    /\ UNCHANGED <<file, batch_size, filtered_df, format, appVars>>
    /\ UNCHANGED callVars
    /\ UNCHANGED dbVars

\* one iteration of the loop over column batches
TcgaBatch ==
    /\ pc = "batch"
    /\ i < Len(gene_df.columns)
    /\ LET cols == BatchColumns(Len(gene_df.columns), i, batch_size)
       IN patients' = patients \o
            BatchPatients(gene_df, selected_genes, cols, CohortName(file.path))
    /\ i' = i + batch_size
    /\ UNCHANGED <<file, batch_size, pc, df, selected_genes, gene_df,
                   filtered_df, format, appVars>>
    /\ UNCHANGED callVars
    /\ UNCHANGED dbVars

\* return all_patients
TcgaReturn ==
    /\ pc = "batch"
    /\ i >= Len(gene_df.columns)
    /\ pc' = "returned"
    /\ UNCHANGED <<file, batch_size, procVars, appVars>>
    /\ UNCHANGED callVars
    /\ UNCHANGED dbVars

\* process_standard_format_file
StandardFile ==
    /\ pc = "standard"
    /\ LET full == read_tsv_file(file.table, file.full_ok, -1)
           filtered == extract_gene_expressions(full.df)
       IN IF full.none
          THEN /\ Return(<<>>)
               /\ UNCHANGED filtered_df
          ELSE /\ filtered_df' = filtered
               /\ IF IsEmpty(filtered) THEN Return(<<>>)
                  ELSE Return(transform_to_patient_centric(filtered,
                                                           CohortName(file.path)))
    /\ UNCHANGED <<file, batch_size, df, selected_genes, gene_df, format, i,
                   appVars>>
    /\ UNCHANGED callVars
    /\ UNCHANGED dbVars

ProcInit ==
    /\ df = EmptyDF
    /\ selected_genes = <<>>
    /\ gene_df = EmptyDF
    /\ filtered_df = EmptyDF
    /\ format = "unset"
    /\ i = 0
    /\ patients = <<>>

\* a database in which the collection does not exist yet
NoDatabase ==
    /\ indexes = {}
    /\ requests = <<>>

\* no object of interest
NoHeap ==
    /\ heap = <<>>
    /\ before = <<>>
    /\ in_list = 0
    /\ out_list = 0

\* no call of the merger or of the scorer on its own
NoCall ==
    /\ arg = <<>>
    /\ id_column = <<>>
    /\ ret = [raised |-> FALSE, out |-> <<>>]
    /\ NoHeap

\* one call of process_tsv_file on one file
Init ==
    /\ file \in FileInputs
    /\ batch_size \in 1..MaxBatch
    /\ pc = "start"
    /\ ProcInit
    /\ files = <<>>
    /\ all_patients = <<>>
    /\ include_clinical = FALSE
    /\ clinical = NoClinical
    /\ stored = <<>>
    /\ results = <<>>
    /\ collection = <<>>
    /\ NoDatabase
    /\ NoCall

Next ==
    \/ SniffAndRoute
    \/ TcgaPrepare
    \/ TcgaBatch
    \/ TcgaReturn
    \/ StandardFile

Spec == Init /\ [][Next]_vars

----------------------------------------------------------------------------
(* process_and_store_data *)

StdColumns  == <<GeneHeader>> \o PatientNames(2)
TcgaColumns == <<PatientName(0), Sample>> \o PatientNames(2)

NumStr == <<NumV(2), StrV(<<"x">>)>>
NumNaN == <<NumV(2), NaNV>>

\* the files of a run: readable and unreadable ones, of both formats, with
\* and without target genes, two of them with the same cohort prefix and
\* the same patient columns
RunFiles ==
    { MkFile(PathA, MkTable(StdColumns, 1, <<ATM>>, NumStr, 0), TRUE, TRUE),
      MkFile(PathC, MkTable(StdColumns, 1, <<ATM>>, NumStr, 0), TRUE, TRUE),
      MkFile(PathB, MkTable(StdColumns, 1, <<ATM>>, NumStr, 0), FALSE, FALSE),
      MkFile(PathB, MkTable(StdColumns, 1, <<ATM>>, NumStr, 0), TRUE, FALSE),
      MkFile(PathB, MkTable(TcgaColumns, 2, <<ATM>>, NumNaN, 0), TRUE, FALSE),
      MkFile(PathB, MkTable(StdColumns, 1, <<AT, GeneX>>, NumStr, 0), TRUE, TRUE),
      MkFile(PathB, MkTable(TcgaColumns, 2, <<AT>>, NumNaN, 0), TRUE, TRUE),
      MkFile(PathB, MkTable(TcgaColumns, 2, <<ATM_lower>>, NumNaN, 0), TRUE, TRUE),
      MkFile(PathA, MkTable(<<IdHeader, ATM, IL6_lower>>, 1, <<GeneX>>, NumNaN, 0),
             TRUE, TRUE) }

FileSeqs == UNION {[1..n -> RunFiles] : n \in 0..MaxFiles}

OS == <<"O","S">>

ClinicalTable(idcol, ids) ==
    [columns |-> <<OS, idcol>>,
     data    |-> [r \in 1..Len(ids) |-> <<NumV(r), ids[r]>>]]

\* the clinical downloads of a run
ClinicalInputs ==
    { MkClinical(FALSE, FALSE, ClinicalTable(Sample, <<>>)),
      MkClinical(TRUE, FALSE, ClinicalTable(Sample, <<>>)),
      MkClinical(TRUE, TRUE, ClinicalTable(GeneHeader, <<StrV(PatientName(1))>>)),
      MkClinical(TRUE, TRUE, ClinicalTable(Sample, <<StrV(PatientName(1))>>)),
      MkClinical(TRUE, TRUE, ClinicalTable(COL_PATIENT,
                    <<StrV(<<"P">>), StrV(PatientName(2))>>)),
      MkClinical(TRUE, TRUE, ClinicalTable(Sample, <<NaNV, StrV(PatientName(1))>>)) }

\* the loop takes the next file_info and calls process_tsv_file
NextFile ==
    /\ pc = "loop"
    /\ files # <<>>
    /\ file' = Head(files)
    /\ files' = Tail(files)
    /\ pc' = "start"
    /\ df' = EmptyDF
    /\ selected_genes' = <<>>
    /\ gene_df' = EmptyDF
    /\ filtered_df' = EmptyDF
    /\ format' = "unset"
    /\ i' = 0
    /\ patients' = <<>>
    /\ UNCHANGED <<batch_size, all_patients, include_clinical, clinical, stored,
                   results,
                   collection>>
    /\ UNCHANGED callVars
    /\ UNCHANGED dbVars

\* if patients: all_patients.extend(patients)
Collect ==
    /\ pc = "returned"
    /\ all_patients' = all_patients \o patients
    /\ results' = Append(results, [file |-> file, patients |-> patients])
    /\ pc' = "loop"
    /\ UNCHANGED <<file, batch_size, procVars, files, include_clinical, clinical,
                   stored,
                   collection>>
    /\ UNCHANGED callVars
    /\ UNCHANGED dbVars

\* the clinical stage: download_clinical_data and merge_with_clinical_data,
\* an exception of which leaves process_and_store_data
Merge ==
    /\ pc = "loop"
    /\ files = <<>>
    /\ IF include_clinical /\ all_patients # <<>> /\ clinical.downloaded
       THEN LET m == merge_with_clinical_data(all_patients, clinical)
            IN IF m.raised
               THEN /\ pc' = "raised"
                    /\ UNCHANGED all_patients
               ELSE /\ pc' = "score"
                    /\ all_patients' = m.out
       ELSE /\ pc' = "score"
            /\ UNCHANGED all_patients
    /\ UNCHANGED <<file, batch_size, procVars, files, include_clinical, clinical,
                   stored, results,
                   collection>>
    /\ UNCHANGED callVars
    /\ UNCHANGED dbVars

\* Score leaving all_patients as it is
Score_Skipped ==
    /\ pc = "score"
    /\ all_patients' = all_patients
    /\ pc' = "store"
    /\ UNCHANGED <<file, batch_size, procVars, files, include_clinical, clinical,
                   stored, results,
                   collection>>
    /\ UNCHANGED callVars
    /\ UNCHANGED dbVars

\* if all_patients: all_patients = calculate_pathway_score(all_patients)
Score ==
    /\ pc = "score"
    /\ all_patients' = IF all_patients # <<>>
                       THEN calculate_pathway_score(all_patients)
                       ELSE all_patients
    /\ pc' = "store"
    /\ UNCHANGED <<file, batch_size, procVars, files, include_clinical, clinical,
                   stored, results,
                   collection>>
    /\ UNCHANGED callVars
    /\ UNCHANGED dbVars

\* collection.create_index([(field, ASCENDING)], background=True, name=name):
\* the index is known under the name given; creating the first index creates
\* the collection with its _id_ index, and a request for an index that
\* exists under the same name with the same key changes nothing
create_index(ix, name) == ix \cup {"_id_", name}

\* create_indexes(collection): existing_indexes is read once, each test
\* looks for the name pymongo would have chosen by itself, each request
\* names the index otherwise
create_indexes(ix) ==
    LET existing_indexes == ix
        cohort == IF "cancer_cohort_1" \notin existing_indexes
                  THEN <<"cancer_cohort_idx">> ELSE <<>>
        patient == IF "patient_id_1" \notin existing_indexes
                   THEN <<"patient_id_idx">> ELSE <<>>
        issued == cohort \o patient
        after(j) == IF j > Len(issued) THEN {} ELSE {"_id_", issued[j]}
    IN [issued  |-> issued,
        indexes |-> ix \cup after(1) \cup after(2)]

\* get_collection(): the collection, after create_indexes(collection)
get_collection(ix) == create_indexes(ix)

\* the get_collection call that opens the function by of database.py
GetCollection(by) ==
    LET c == get_collection(indexes)
    IN /\ indexes' = c.indexes
       /\ requests' = Append(requests, [by |-> by, issued |-> c.issued])

\* collection.insert_many(patient_data): the documents are appended in
\* order, the indexes of create_indexes are not unique; a failure keeps the
\* first n documents
insert_many(coll, patient_data, n) == coll \o SubSeq(patient_data, 1, n)

\* if all_patients: insert_patient_data(all_patients); get_collection is
\* outside the try of insert_patient_data, insert_many inside it
Store ==
    /\ pc = "store"
    /\ IF all_patients # <<>>
       THEN /\ stored' = Append(stored, all_patients)
            /\ \/ /\ pc' = "done"
                  /\ collection' = insert_many(collection, all_patients,
                                                Len(all_patients))
                  /\ GetCollection("insert_patient_data")
               \/ /\ pc' = "done"
                  /\ \E n \in 0..(Len(all_patients) - 1) :
                        collection' = insert_many(collection, all_patients, n)
                  /\ GetCollection("insert_patient_data")
               \/ /\ pc' = "raised"
                  /\ UNCHANGED <<collection, dbVars>>
       ELSE /\ pc' = "done"
            /\ UNCHANGED <<stored, collection, dbVars>>
    /\ UNCHANGED <<file, batch_size, procVars, files, all_patients,
                   include_clinical, clinical, results>>
    /\ UNCHANGED callVars

\* one run of process_and_store_data
RunInit ==
    /\ files \in FileSeqs
    /\ file = NoFile
    /\ batch_size = MaxBatch
    /\ pc = "loop"
    /\ ProcInit
    /\ all_patients = <<>>
    /\ \/ include_clinical = FALSE /\ clinical = NoClinical
       \/ include_clinical = TRUE /\ clinical \in ClinicalInputs
    /\ stored = <<>>
    /\ results = <<>>
    /\ collection = <<>>
    /\ NoDatabase
    /\ NoCall

RunNext ==
    \/ NextFile
    \/ SniffAndRoute
    \/ TcgaPrepare
    \/ TcgaBatch
    \/ TcgaReturn
    \/ StandardFile
    \/ Collect
    \/ Merge
    \/ Score
    \/ Store

RunSpec == RunInit /\ [][RunNext]_vars

----------------------------------------------------------------------------
(* merge_with_clinical_data and calculate_pathway_score, each called on    *)
(* its own                                                                 *)

P1X == PatientName(1) \o <<"X">>

\* patient_id values of the records process_tsv_file builds: column labels,
\* and the row numbers of the genes-as-columns fallback
PatientIds == {StrV(PatientName(1)), StrV(P1X), StrV(PatientName(2)), NumV(0)}

MkPatient(id, cohort, expressions) ==
    [patient_id |-> id, cancer_cohort |-> cohort, gene_expressions |-> expressions]

MergeRecords == {MkPatient(id, PathB, (ATM :> NumV(2))) : id \in PatientIds}

MergeLists == UNION {[1..n -> MergeRecords] : n \in 0..MaxPatients}

\* values of an identifier column of a clinical table: pandas reads a
\* column as strings and NaN, or as numbers and NaN
StringIds == {StrV(PatientName(1)), StrV(P1X), StrV(<<"P">>), NaNV}

NumericIds == {NumV(0), NaNV}

ClinicalIdSeqs ==
    UNION {[1..n -> StringIds] \cup [1..n -> NumericIds] : n \in 0..MaxClinicalRows}

\* headers of clinical tables: one, two or no identifier column, in both
\* orders
ClinicalLayouts ==
    { <<Sample, OS>>, <<Sample, COL_patient_id>>, <<COL_patient_id, Sample>>,
      <<COL_PATIENT_ID, COL_PATIENT>>, <<COL_PATIENT, COL_PATIENT_ID>>,
      <<COL_bcr, Sample>>, <<GeneHeader, OS>> }

\* a clinical table whose odd columns hold ids from the first row to the
\* last and whose even columns hold them from the last row to the first
IdTable(columns, ids) ==
    [columns |-> columns,
     data    |-> [r \in 1..Len(ids) |->
                    [c \in 1..Len(columns) |->
                        IF c % 2 = 1 THEN ids[r] ELSE ids[Len(ids) + 1 - r]]]]

MergeClinicals ==
    {MkClinical(TRUE, TRUE, IdTable(l, ids)) :
        l \in ClinicalLayouts, ids \in ClinicalIdSeqs}
    \cup {MkClinical(TRUE, TRUE, ClinicalTable(Sample, ids)) : ids \in ClinicalIdSeqs}
    \cup {MkClinical(TRUE, FALSE, IdTable(<<Sample, OS>>, <<StrV(PatientName(1))>>))}

\* gene_expressions dicts: canonical keys of the three pathways, a key in
\* another case, numeric, NaN and string values
ScoreValues == {NumV(0), NumV(2), NumV(4), NaNV, StrV(<<"x">>)}

ScoreKeySets ==
    { {C6orf150, TMEM173, CCL5, ATM}, {C6orf150, CCL5, CXCL10, IL6, ATM},
      {TMEM173, CCL5, ATM_lower}, {C6orf150, TMEM173}, {GeneX}, {} }

ScoreExpressions == UNION {[keys -> ScoreValues] : keys \in ScoreKeySets}

ScoreRecords == {MkPatient(StrV(PatientName(1)), PathB, e) : e \in ScoreExpressions}

ScorePairs ==
    {MkPatient(StrV(PatientName(2)), PathB, e) : e \in [{C6orf150, TMEM173} -> ScoreValues]}

ScoreLists ==
    {<<>>} \cup {<<r>> : r \in ScoreRecords}
    \cup UNION {[1..n -> ScorePairs] : n \in 2..MaxPatients}

\* no run of process_and_store_data
NoRun ==
    /\ file = NoFile
    /\ batch_size = MaxBatch
    /\ ProcInit
    /\ files = <<>>
    /\ all_patients = <<>>
    /\ include_clinical = TRUE
    /\ stored = <<>>
    /\ results = <<>>
    /\ collection = <<>>
    /\ NoDatabase

\* a call merge_with_clinical_data(arg, path of the clinical file)
CallMerge ==
    /\ pc = "call_merge"
    /\ LET rd == read_tsv_file(clinical.table, clinical.read_ok, -1)
           m == merge_with_clinical_data(arg, clinical)
       IN /\ id_column' = IF rd.none THEN id_column ELSE IdColumn(rd.df)
          /\ ret' = m
          /\ pc' = IF m.raised THEN "raised" ELSE "merged"
    /\ UNCHANGED <<file, batch_size, procVars, appVars, arg, heapVars>>
    /\ UNCHANGED dbVars

\* a call calculate_pathway_score(arg)
CallScore ==
    /\ pc = "call_score"
    /\ ret' = [raised |-> FALSE, out |-> calculate_pathway_score(arg)]
    /\ pc' = "scored"
    /\ UNCHANGED <<file, batch_size, procVars, appVars, arg, id_column, heapVars>>
    /\ UNCHANGED dbVars

CallInit ==
    /\ \/ /\ pc = "call_merge"
          /\ arg \in MergeLists
          /\ clinical \in MergeClinicals
       \/ /\ pc = "call_score"
          /\ arg \in ScoreLists
          /\ clinical = NoClinical
    /\ id_column = <<>>
    /\ ret = [raised |-> FALSE, out |-> <<>>]
    /\ NoHeap
    /\ NoRun

CallNext ==
    \/ CallMerge
    \/ CallScore

CallSpec == CallInit /\ [][CallNext]_vars

----------------------------------------------------------------------------
(* The same two calls at the level of Python objects: a list holds the     *)
(* addresses of its records, a record holds the address of its             *)
(* gene_expressions dict                                                   *)

ListObj(items) == [kind |-> "list", v |-> items]

DictObj(fields) == [kind |-> "dict", v |-> fields]

\* the heap that holds the list recs: the gene_expressions dict of record j
\* at 2j - 1, record j at 2j, the list after them
MkHeap(recs) ==
    [a \in 1..(2 * Len(recs) + 1) |->
        IF a = 2 * Len(recs) + 1 THEN ListObj([j \in 1..Len(recs) |-> 2 * j])
        ELSE IF a % 2 = 1 THEN DictObj(recs[(a + 1) \div 2].gene_expressions)
        ELSE DictObj([recs[a \div 2] EXCEPT !.gene_expressions = [ref |-> a - 1]])]

\* the record at address a, with its gene_expressions
Deref(h, a) ==
    [h[a].v EXCEPT !.gene_expressions = h[h[a].v.gene_expressions.ref].v]

\* the list at address l, as a list of records
ListValue(h, l) == [j \in 1..Len(h[l].v) |-> Deref(h, h[l].v[j])]

\* patient.copy() binding the name to the patient itself
DictCopy_Alias(h, a) == [heap |-> h, id |-> a]

\* patient.copy(): a new dict with the keys and values of the dict at a
DictCopy(h, a) == [heap |-> Append(h, h[a]), id |-> Len(h) + 1]

\* d[key] = value on the dict at a
SetItem(h, a, key, value) ==
    [h EXCEPT ![a] = DictObj(WithField(h[a].v, key, value))]

\* the loop over gene_data from patient j on, merged_data being out
RECURSIVE MergeLoop(_, _, _, _, _)
MergeLoop(h, items, dict, j, out) ==
    IF j > Len(items)
    THEN [raised |-> FALSE, heap |-> Append(h, ListObj(out)), out |-> Len(h) + 1]
    ELSE LET c == DictCopy(h, items[j])
             found == FindClinical(h[items[j]].v.patient_id, dict)
         IN IF found.kind = "raise"
            THEN [raised |-> TRUE, heap |-> c.heap, out |-> 0]
            ELSE MergeLoop(IF found.kind = "hit"
                           THEN SetItem(c.heap, c.id, "clinical_data",
                                        dict[found.at].row)
                           ELSE c.heap,
                           items, dict, j + 1, Append(out, c.id))

\* the loop over patient_data from patient j on, scored_patients being out
RECURSIVE ScoreLoop(_, _, _, _)
ScoreLoop(h, items, j, out) ==
    IF j > Len(items)
    THEN [raised |-> FALSE, heap |-> Append(h, ListObj(out)), out |-> Len(h) + 1]
    ELSE LET c == DictCopy(h, items[j])
             gene_expressions == h[h[items[j]].v.gene_expressions.ref].v
         IN ScoreLoop(SetItem(c.heap, c.id, "pathway_scores",
                              PathwayScores(gene_expressions)),
                      items, j + 1, Append(out, c.id))

\* merge_with_clinical_data(gene_data, clinical_file_path) on the list at
\* in_list
HeapMerge ==
    /\ pc = "heap_merge"
    /\ LET rd == read_tsv_file(clinical.table, clinical.read_ok, -1)
           idcol == IdColumn(rd.df)
       IN IF rd.none \/ idcol = <<>>
          THEN /\ out_list' = in_list
               /\ pc' = "merge_returned"
               /\ UNCHANGED heap
          ELSE LET m == MergeLoop(heap, heap[in_list].v,
                                  ClinicalDict(rd.df, idcol), 1, <<>>)
               IN /\ heap' = m.heap
                  /\ out_list' = m.out
                  /\ pc' = IF m.raised THEN "raised" ELSE "merge_returned"
    /\ UNCHANGED <<file, batch_size, procVars, appVars, arg, id_column, ret,
                   before, in_list>>
    /\ UNCHANGED dbVars

\* calculate_pathway_score(patient_data) on the list at in_list
HeapScore ==
    /\ pc = "heap_score"
    /\ LET m == ScoreLoop(heap, heap[in_list].v, 1, <<>>)
       IN /\ heap' = m.heap
          /\ out_list' = m.out
    /\ pc' = "score_returned"
    /\ UNCHANGED <<file, batch_size, procVars, appVars, arg, id_column, ret,
                   before, in_list>>
    /\ UNCHANGED dbVars

HeapInit ==
    /\ \/ /\ pc = "heap_merge"
          /\ arg \in MergeLists
          /\ clinical \in MergeClinicals
       \/ /\ pc = "heap_score"
          /\ arg \in ScoreLists
          /\ clinical = NoClinical
    /\ heap = MkHeap(arg)
    /\ before = heap
    /\ in_list = Len(heap)
    /\ out_list = 0
    /\ id_column = <<>>
    /\ ret = [raised |-> FALSE, out |-> <<>>]
    /\ NoRun

HeapNext ==
    \/ HeapMerge
    \/ HeapScore

HeapSpec == HeapInit /\ [][HeapNext]_vars

----------------------------------------------------------------------------
(* database.py: calls of its functions on one collection *)

Documents == {MkPatient(id, PathB, (ATM :> NumV(2))) :
                id \in {StrV(PatientName(1)), StrV(PatientName(2))}}

DocumentLists == [1..1 -> Documents] \cup [1..2 -> Documents]

\* the indexes of a collection that exists: on each of the two fields no
\* index, an index under the name pymongo chooses by itself, or the index
\* under the name create_indexes gives
IndexStates ==
    { {"_id_"} \cup a \cup b :
        a \in {{}, {"cancer_cohort_1"}, {"cancer_cohort_idx"}},
        b \in {{}, {"patient_id_1"}, {"patient_id_idx"}} }

\* insert_patient_data(patient_data), patient_data a list: a failure of
\* insert_many keeps the first n documents
InsertPatientData ==
    /\ pc = "database"
    /\ Len(requests) < MaxCalls
    /\ GetCollection("insert_patient_data")
    /\ \E patient_data \in DocumentLists : \E n \in 0..Len(patient_data) :
            /\ Len(collection) + Len(patient_data) <= MaxDocs
            /\ collection' = insert_many(collection, patient_data, n)
    /\ UNCHANGED <<file, batch_size, pc, procVars, callVars, files, all_patients,
                   include_clinical, clinical, stored, results>>

\* clear_collection(): delete_many({}) removes every document, or fails
ClearCollection ==
    /\ pc = "database"
    /\ Len(requests) < MaxCalls
    /\ GetCollection("clear_collection")
    /\ collection' \in {<<>>, collection}
    /\ UNCHANGED <<file, batch_size, pc, procVars, callVars, files, all_patients,
                   include_clinical, clinical, stored, results>>

\* get_patient_data, get_unique_cohorts, get_patient_count,
\* get_cohort_counts, get_gene_expression_stats: get_collection, then a read
ReadCollection ==
    /\ pc = "database"
    /\ Len(requests) < MaxCalls
    /\ \E by \in {"get_patient_data", "get_unique_cohorts", "get_patient_count",
                   "get_cohort_counts", "get_gene_expression_stats"} :
            GetCollection(by)
    /\ UNCHANGED <<file, batch_size, pc, procVars, callVars, appVars>>

DbInit ==
    /\ pc = "database"
    /\ \/ indexes = {} /\ collection = <<>>
       \/ indexes \in IndexStates /\ collection \in {<<>>} \cup DocumentLists
    /\ requests = <<>>
    /\ file = NoFile
    /\ batch_size = MaxBatch
    /\ ProcInit
    /\ files = <<>>
    /\ all_patients = <<>>
    /\ include_clinical = TRUE
    /\ clinical = NoClinical
    /\ stored = <<>>
    /\ results = <<>>
    /\ NoCall

DbNext ==
    \/ InsertPatientData
    \/ ClearCollection
    \/ ReadCollection

DbSpec == DbInit /\ [][DbNext]_vars

----------------------------------------------------------------------------
(* Properties of process_tsv_file *)

Returned == pc = "returned"

ReadsOk == file.sniff_ok /\ file.full_ok

\* a label matches a target gene by one of the strategies
MatchesSomeGene(label) ==
    \E g \in TargetSet : Contains(Upper(label), Upper(g))

\* the labels of the first column of the file
FirstColumn == [r \in 1..Len(file.table.data) |-> file.table.data[r][1]]

\* C1: every key of gene_expressions of every record returned by
\* process_tsv_file is a canonical symbol of the target gene list
C1_KeysCanonical ==
    Returned =>
        \A j \in 1..Len(patients) :
            DOMAIN patients[j].gene_expressions \subseteq TargetSet

\* C2 as stated: in both paths every emitted record has at least one
\* numeric value, hence a non-empty gene_expressions
C2_NumericInBothPaths ==
    Returned =>
        \A j \in 1..Len(patients) :
            \E g \in DOMAIN patients[j].gene_expressions :
                patients[j].gene_expressions[g].k = "num"

\* the records emitted for a patient column of gene_df
RecordsOf(label) ==
    {j \in 1..Len(patients) : patients[j].patient_id = label}

\* C2 amended: in the TCGA path a patient has a record if and only if one
\* of the selected rows has a numeric cell in the patient's column; in
\* either path no record has an empty gene_expressions
C2_NumericInTcgaPath ==
    Returned =>
        /\ \A j \in 1..Len(patients) :
                DOMAIN patients[j].gene_expressions # {}
        /\ format = "tcga" =>
            /\ \A j \in 1..Len(patients) :
                \E g \in DOMAIN patients[j].gene_expressions :
                    patients[j].gene_expressions[g].k = "num"
            /\ \A c \in 1..Len(gene_df.columns) :
                (\A r \in 1..Len(gene_df.data) : gene_df.data[r][c].k # "num")
                    => RecordsOf(gene_df.columns[c]) = {}

\* C2 witness: the TCGA path returned records and dropped a patient whose
\* selected cells are all non-numeric
C2_Witness ==
    /\ Returned /\ format = "tcga" /\ patients # <<>>
    /\ \E c \in 1..Len(gene_df.columns) :
        /\ \A r \in 1..Len(gene_df.data) : gene_df.data[r][c].k # "num"
        /\ RecordsOf(gene_df.columns[c]) = {}

\* C3: a table with a 'sample' column or more than 100 columns, whose
\* first column holds exactly one label matching a target gene, that label
\* being the canonical symbol, yields for every patient column with a
\* numeric cell in that row a record holding exactly that gene
C3_GenesInFirstColumn ==
    (Returned /\ ReadsOk /\ format = "tcga") =>
        \A r \in 1..Len(FirstColumn) :
            ( /\ FirstColumn[r].s \in TargetSet
              /\ \A m \in 1..Len(FirstColumn) :
                    m # r => ~MatchesSomeGene(FirstColumn[m].s) )
            => \A c \in 2..Len(file.table.columns) :
                file.table.data[r][c].k = "num" =>
                    \E j \in 1..Len(patients) :
                        /\ patients[j].patient_id = StrV(file.table.columns[c])
                        /\ DOMAIN patients[j].gene_expressions = {FirstColumn[r].s}
                        /\ patients[j].gene_expressions[FirstColumn[r].s]
                             = NumV(file.table.data[r][c].n)

\* the records of the first n patient columns of gene_df, built in one pass
OnePass(n) ==
    LET cols == SelectIdx(n,
                    LAMBDA c : \E r \in 1..Len(gene_df.data) :
                        /\ gene_df.data[r][c].k = "num"
                        /\ Cardinality({m \in 1..Len(gene_df.index) :
                                gene_df.index[m] = gene_df.index[r]}) = 1)
    IN [j \in 1..Len(cols) |->
            TcgaPatient(gene_df, selected_genes, cols[j], CohortName(file.path))]

\* C4: whatever the batch size, the records accumulated after the batches
\* taken so far are the records of the columns covered so far, in column
\* order, as a single pass over those columns builds them; on return they
\* are the records of a single batch holding every column
C4_BatchingInvisible ==
    (pc = "batch" \/ (Returned /\ format = "tcga" /\ selected_genes # <<>>))
        => patients = OnePass(Min(i, Len(gene_df.columns)))

\* C4 witness: the TCGA path returned several records built in more than
\* one batch
C4_Witness ==
    /\ Returned /\ format = "tcga"
    /\ Len(patients) >= 2
    /\ batch_size < Len(gene_df.columns)

\* the row of filtered_df whose value a patient's dict keeps for a label
KeptRow(r) ==
    \A m \in 1..Len(filtered_df.data) :
        filtered_df.data[m][1] = filtered_df.data[r][1] => m <= r

\* C5 as stated: in both paths a selected cell that float() rejects is
\* kept in the patient's gene_expressions as a string
C5_StringKeptInBothPaths ==
    Returned =>
        /\ format = "tcga" =>
            \A r \in 1..Len(gene_df.data), c \in 1..Len(gene_df.columns) :
                gene_df.data[r][c].k = "str" =>
                    \E j \in RecordsOf(gene_df.columns[c]) :
                        /\ gene_df.index[r].s \in DOMAIN patients[j].gene_expressions
                        /\ patients[j].gene_expressions[gene_df.index[r].s]
                             = StrV(gene_df.data[r][c].s)
        /\ format = "standard" =>
            \A r \in 1..Len(filtered_df.data), c \in 2..Len(filtered_df.columns) :
                (filtered_df.data[r][c].k = "str" /\ KeptRow(r)) =>
                    patients[c - 1].gene_expressions[filtered_df.data[r][1].s]
                        = StrV(filtered_df.data[r][c].s)

\* a label carried by one row of gene_df and listed once in selected_genes
Single(r) ==
    Cardinality({m \in 1..Len(gene_df.index) :
                    gene_df.index[m] = gene_df.index[r]}) = 1

\* C5 amended: the standard path keeps such a cell as a string; the TCGA
\* path stores no string and leaves the cell out, and in both paths the
\* other cells of the patient are still recorded
C5_StringKeptInStandardPath ==
    Returned =>
        /\ format = "standard" =>
            \A r \in 1..Len(filtered_df.data), c \in 2..Len(filtered_df.columns) :
                KeptRow(r) =>
                    /\ patients[c - 1].patient_id = filtered_df.columns[c]
                    /\ patients[c - 1].gene_expressions[filtered_df.data[r][1].s].k
                         = filtered_df.data[r][c].k
                    /\ filtered_df.data[r][c].k = "str" =>
                         patients[c - 1].gene_expressions[filtered_df.data[r][1].s]
                            = StrV(filtered_df.data[r][c].s)
        /\ format = "tcga" =>
            /\ \A j \in 1..Len(patients) :
                \A g \in DOMAIN patients[j].gene_expressions :
                    patients[j].gene_expressions[g].k # "str"
            /\ \A r \in 1..Len(gene_df.data), c \in 1..Len(gene_df.columns) :
                (gene_df.data[r][c].k = "num" /\ Single(r)) =>
                    \E j \in RecordsOf(gene_df.columns[c]) :
                        /\ gene_df.index[r].s \in DOMAIN patients[j].gene_expressions
                        /\ patients[j].gene_expressions[gene_df.index[r].s]
                             = NumV(gene_df.data[r][c].n)

\* C5 witness: the standard path returned a record holding a string next
\* to a number
C5_Witness ==
    /\ Returned /\ format = "standard"
    /\ \E j \in 1..Len(patients) :
        \E g, h \in DOMAIN patients[j].gene_expressions :
            /\ patients[j].gene_expressions[g].k = "str"
            /\ patients[j].gene_expressions[h].k = "num"

\* C6 as stated: no record of either path stores NaN
C6_NoNaNInBothPaths ==
    Returned =>
        \A j \in 1..Len(patients) :
            \A g \in DOMAIN patients[j].gene_expressions :
                patients[j].gene_expressions[g].k # "nan"

\* C6 amended: no record of the TCGA path stores NaN, a NaN cell of a
\* selected row being left out of the patient's gene_expressions while
\* the patient's numeric cells are recorded
C6_NoNaNInTcgaPath ==
    (Returned /\ format = "tcga") =>
        /\ \A j \in 1..Len(patients) :
            \A g \in DOMAIN patients[j].gene_expressions :
                patients[j].gene_expressions[g].k # "nan"
        /\ \A r \in 1..Len(gene_df.data), c \in 1..Len(gene_df.columns) :
            (gene_df.data[r][c].k = "nan" /\ Single(r)) =>
                \A j \in RecordsOf(gene_df.columns[c]) :
                    gene_df.index[r].s \notin DOMAIN patients[j].gene_expressions

\* C6 witness: the TCGA path returned a record for a patient one of whose
\* selected cells is NaN
C6_Witness ==
    /\ Returned /\ format = "tcga"
    /\ \E r \in 1..Len(gene_df.data), c \in 1..Len(gene_df.columns) :
        /\ gene_df.data[r][c].k = "nan"
        /\ Single(r)
        /\ RecordsOf(gene_df.columns[c]) # {}

\* the column whose values label the rows: 'sample' when the header has
\* it, the first column otherwise
LabelColumn ==
    IF Sample \in Range(file.table.columns)
    THEN CHOOSE c \in 1..Len(file.table.columns) : file.table.columns[c] = Sample
    ELSE 1

RowLabelsOfFile ==
    {file.table.data[r][LabelColumn].s : r \in 1..Len(file.table.data)}

\* C7: a target gene whose canonical symbol is a row label is resolved to
\* that label, and no other label containing the symbol is selected for it
C7_ExactMatchWins ==
    (Returned /\ ReadsOk) =>
        \A g \in TargetSet \cap RowLabelsOfFile :
            /\ format = "tcga" =>
                /\ g \in Range(selected_genes)
                /\ \A l \in Range(selected_genes) :
                        ContainsIgnoreCase(l, g) => l = g
            /\ format = "standard" =>
                /\ \E r \in 1..Len(filtered_df.data) : filtered_df.data[r][1].s = g
                /\ \A r \in 1..Len(filtered_df.data) :
                        ContainsIgnoreCase(filtered_df.data[r][1].s, g)
                            => filtered_df.data[r][1].s = g

\* no label of the first column (nor of the 'sample' column) matches a
\* target gene by any strategy
NoRowMatch ==
    \A r \in 1..Len(file.table.data) :
        \A c \in {1, LabelColumn} :
            file.table.data[r][c].k = "str"
                => ~MatchesSomeGene(file.table.data[r][c].s)

\* the column labels equal to a target gene, exactly or ignoring case
GeneColumnLabels ==
    {l \in Range(file.table.columns) :
        \E g \in TargetSet : EqualsIgnoreCase(g, l)}

\* the records are one per row of the file, keyed by the gene columns
OneRecordPerRow ==
    /\ Len(patients) = Len(file.table.data)
    /\ \A j \in 1..Len(patients) :
        /\ patients[j].patient_id = NumV(j - 1)
        /\ DOMAIN patients[j].gene_expressions = GeneColumnLabels
        /\ \A c \in 1..Len(file.table.columns) :
            file.table.columns[c] \in GeneColumnLabels =>
                patients[j].gene_expressions[file.table.columns[c]].k
                    = file.table.data[j][c].k

\* C8 as stated: whenever no row label matches and some column label does,
\* one record per row is built from the gene columns, whatever the width
C8_ColumnFallbackAnyWidth ==
    (Returned /\ ReadsOk /\ NoRowMatch /\ GeneColumnLabels # {})
        => OneRecordPerRow

\* C8 amended: the column fallback exists in the standard path only (no
\* 'sample' column, at most 100 columns); the TCGA path returns no record
\* when no row label matches
C8_ColumnFallbackStandardOnly ==
    (Returned /\ ReadsOk /\ NoRowMatch /\ GeneColumnLabels # {}) =>
        /\ format = "standard" => OneRecordPerRow
        /\ format = "tcga" => patients = <<>>

\* C8 witness: the standard path built records from gene columns
C8_Witness ==
    /\ Returned /\ ReadsOk /\ NoRowMatch /\ GeneColumnLabels # {}
    /\ format = "standard"
    /\ Len(patients) >= 2

----------------------------------------------------------------------------
(* Properties of process_and_store_data *)

\* no row label and no column label of the file contains a target gene
NoGeneInFile ==
    /\ NoRowMatch
    /\ \A l \in Range(file.table.columns) : ~MatchesSomeGene(l)

\* C9: a file in which no target gene can be resolved makes
\* process_tsv_file return the empty list, and the loop then goes back to
\* its head with the remaining files and the records collected so far
C9_NoGenesNoRecords ==
    /\ [](Returned /\ NoGeneInFile => patients = <<>>)
    /\ [][(Returned /\ NoGeneInFile) =>
            /\ pc' = "loop"
            /\ files' = files
            /\ all_patients' = all_patients]_vars

\* C9 witness: process_tsv_file returned the empty list for a readable,
\* non-empty file without target genes while files remain to be processed
C9_Witness ==
    /\ Returned /\ ReadsOk /\ NoGeneInFile
    /\ file.table.data # <<>>
    /\ patients = <<>>
    /\ files # <<>>

Unreadable(f) == ~f.sniff_ok \/ ~f.full_ok

\* the records process_tsv_file returned over the run, in order
Produced == Flatten([k \in 1..Len(results) |-> results[k].patients])

\* the list was handed to insert_patient_data once, scored
HandedOver ==
    /\ Len(stored) = 1
    /\ Len(stored[1]) = Len(Produced)
    /\ \A j \in 1..Len(Produced) :
        /\ stored[1][j].patient_id = Produced[j].patient_id
        /\ stored[1][j].cancer_cohort = Produced[j].cancer_cohort
        /\ stored[1][j].gene_expressions = Produced[j].gene_expressions
        /\ "pathway_scores" \in DOMAIN stored[1][j]

\* C10: an unreadable file gives the empty list, at either read, and when
\* the run ends the records of the other files have been scored and handed
\* to insert_patient_data
C10_UnreadableFileSkipped ==
    /\ (Returned /\ Unreadable(file)) => patients = <<>>
    /\ (pc \in {"done", "raised"}
            /\ (\E k \in 1..Len(results) : Unreadable(results[k].file))
            /\ Produced # <<>>)
        => HandedOver

----------------------------------------------------------------------------
(* Properties of merge_with_clinical_data *)

Merged == pc = "merged"

MergeRaised == pc = "raised" /\ ret.raised

\* C11: a failure local to one patient or one clinical row (a clinical
\* identifier that is missing or is not a string) never aborts the merge:
\* the call returns, with one record for every input patient
C11_MergeNeverAborts ==
    /\ ~MergeRaised
    /\ Merged => Len(ret.out) = Len(arg)

MergeCalled == pc \in {"merged", "raised"} /\ clinical.read_ok

ClinicalColumns == Range(clinical.table.columns)

\* the name the priority list gives for a set of column names
FirstByPriority(cols) ==
    IF COL_patient_id \in cols THEN COL_patient_id
    ELSE IF Sample \in cols THEN Sample
    ELSE IF COL_bcr \in cols THEN COL_bcr
    ELSE IF COL_PATIENT \in cols THEN COL_PATIENT
    ELSE IF COL_PATIENT_ID \in cols THEN COL_PATIENT_ID
    ELSE <<>>

HasClinical(rec) == "clinical_data" \in DOMAIN rec

\* an identifier and a patient_id that the merger pairs
Pairs(cid, pid) ==
    \/ cid = pid
    \/ IsStr(cid) /\ IsStr(pid) /\ (Contains(cid.s, pid.s) \/ Contains(pid.s, cid.s))

RecognisedNames == {COL_patient_id, Sample, COL_bcr, COL_PATIENT, COL_PATIENT_ID}

NoIdColumn == ClinicalColumns \cap RecognisedNames = {}

ClinicalId(r) ==
    clinical.table.data[r][CHOOSE c \in 1..Len(clinical.table.columns) :
                                clinical.table.columns[c] = id_column]

ClinicalRows == 1..Len(clinical.table.data)

ExactRows(pid) == {r \in ClinicalRows : ClinicalId(r).k # "nan" /\ ClinicalId(r) = pid}

ContainRows(pid) ==
    {r \in ClinicalRows :
        /\ IsStr(pid) /\ IsStr(ClinicalId(r))
        /\ Contains(ClinicalId(r).s, pid.s) \/ Contains(pid.s, ClinicalId(r).s)}

\* C14: per patient, a clinical row with an equal identifier is attached
\* whenever there is one, even if another identifier is a substring of the
\* patient id; a row related by containment is attached when no identifier
\* is equal and some identifier contains, or is contained in, the patient id
C14_ExactThenContainment ==
    MergeCalled /\ id_column # <<>> =>
        \A j \in 1..Len(arg) :
            LET pid == arg[j].patient_id
            IN /\ ExactRows(pid) # {} =>
                    /\ Merged
                    /\ HasClinical(ret.out[j])
                    /\ ret.out[j].clinical_data[id_column] = pid
               /\ ExactRows(pid) = {} /\ ContainRows(pid) # {} =>
                    /\ Merged
                    /\ HasClinical(ret.out[j])
                    /\ \E r \in ContainRows(pid) :
                            ret.out[j].clinical_data[id_column] = ClinicalId(r)

\* the record rec without its clinical_data field
WithoutClinical(rec) == [f \in DOMAIN rec \ {"clinical_data"} |-> rec[f]]

Unmatched(pid) ==
    ~clinical.read_ok \/ id_column = <<>>
        \/ (ExactRows(pid) = {} /\ ContainRows(pid) = {})

\* C15: the call returns exactly one record per input record, in input
\* order; a record without exact and without containment match comes back
\* with the fields and values of its input and no clinical_data, a matched
\* record differs from its input by the added clinical_data only
C15_OneRecordPerInput ==
    pc \in {"merged", "raised"} =>
        /\ Merged
        /\ Len(ret.out) = Len(arg)
        /\ \A j \in 1..Len(arg) :
                /\ WithoutClinical(ret.out[j]) = arg[j]
                /\ Unmatched(arg[j].patient_id) <=> ~HasClinical(ret.out[j])

----------------------------------------------------------------------------
(* Properties of calculate_pathway_score *)

Scored == pc = "scored"

\* the genes of a pathway whose value counts: present, numeric, not NaN
Contributing(expressions, genes) ==
    {g \in Range(genes) \cap DOMAIN expressions : expressions[g].k = "num"}

RECURSIVE SumOf(_, _)
SumOf(expressions, S) ==
    IF S = {} THEN 0
    ELSE LET g == CHOOSE x \in S : TRUE
         IN expressions[g].n + SumOf(expressions, S \ {g})

\* score is the arithmetic mean of the contributing values, None without any
IsMeanOf(score, expressions, genes) ==
    LET S == Contributing(expressions, genes)
    IN IF S = {} THEN score.none
       ELSE /\ ~score.none
            /\ score.den > 0
            /\ score.num * Cardinality(S) = score.den * SumOf(expressions, S)

Pathways == {"cGAS_activation", "inflammatory_response", "signaling"}

\* C16: each group score is the arithmetic mean of the patient's numeric,
\* non-NaN values for the genes of the group (strings and absent genes do
\* not contribute), and None when no gene of the group contributes
C16_GroupScoreIsMean ==
    Scored =>
        /\ Len(ret.out) = Len(arg)
        /\ \A j \in 1..Len(arg) : \A w \in Pathways :
                IsMeanOf(ret.out[j].pathway_scores[w], arg[j].gene_expressions,
                         pathway_genes[w])

\* values 2 and 4 for the two genes of a group give 3, next to a group whose
\* only gene holds a string and a group whose only value is 0
C16_Witness ==
    /\ Scored
    /\ \E j \in 1..Len(arg) :
        LET e == arg[j].gene_expressions
            ps == ret.out[j].pathway_scores
        IN /\ DOMAIN e = {C6orf150, TMEM173, CCL5, ATM}
           /\ e[C6orf150] = NumV(2) /\ e[TMEM173] = NumV(4)
           /\ e[CCL5] = StrV(<<"x">>) /\ e[ATM] = NumV(0)
           /\ ps.cGAS_activation = [none |-> FALSE, num |-> 3, den |-> 1]
           /\ ps.inflammatory_response.none
           /\ ps.signaling = [none |-> FALSE, num |-> 0, den |-> 1]

\* 5 * x = 2 * a + 2 * b + c, over fractions
IsWeightedSum(x, a, b, c) ==
    /\ ~x.none
    /\ x.den > 0
    /\ 5 * x.num * a.den * b.den * c.den =
            x.den * (2 * a.num * b.den * c.den + 2 * b.num * a.den * c.den
                        + c.num * a.den * b.den)

\* C17: every scored record's pathway_scores has an overall key; overall is
\* 0.4 * cGAS_activation + 0.4 * inflammatory_response + 0.2 * signaling
\* when the three group scores are not None, and None as soon as one is
C17_OverallWeighted ==
    Scored =>
        \A j \in 1..Len(ret.out) :
            LET ps == ret.out[j].pathway_scores
            IN /\ "overall" \in DOMAIN ps
               /\ IF \E w \in Pathways : ps[w].none
                  THEN ps.overall.none
                  ELSE IsWeightedSum(ps.overall, ps.cGAS_activation,
                                     ps.inflammatory_response, ps.signaling)

\* group scores 3, 2 and 4 give the overall score 14/5
C17_Witness ==
    /\ Scored
    /\ \E j \in 1..Len(ret.out) :
        LET ps == ret.out[j].pathway_scores
        IN /\ ps.cGAS_activation = [none |-> FALSE, num |-> 3, den |-> 1]
           /\ ps.inflammatory_response = [none |-> FALSE, num |-> 2, den |-> 1]
           /\ ps.signaling = [none |-> FALSE, num |-> 4, den |-> 1]
           /\ ps.overall = [none |-> FALSE, num |-> 14, den |-> 5]

----------------------------------------------------------------------------
(* Properties of process_and_store_data *)

HasScores(rec) == "pathway_scores" \in DOMAIN rec

SomeClinical(recs) == \E j \in 1..Len(recs) : HasClinical(recs[j])

SomeScores(recs) == \E j \in 1..Len(recs) : HasScores(recs[j])

\* C18: within one run the stages come in the order files, clinical merge,
\* scoring, persistence: every record handed to insert_patient_data has
\* pathway_scores, the merge comes after the last file and before scoring,
\* insert_patient_data is called at most once and never with an empty list,
\* and after a failed clinical download the records are scored and handed
\* over without clinical_data
C18_StageOrder ==
    /\ [](/\ Len(stored) <= 1
          /\ \A k \in 1..Len(stored) :
                /\ stored[k] # <<>>
                /\ \A j \in 1..Len(stored[k]) : HasScores(stored[k][j]))
    /\ [](pc \in {"done", "raised"} /\ include_clinical /\ ~clinical.downloaded
            /\ Produced # <<>>
          => HandedOver /\ ~SomeClinical(stored[1]))
    /\ [][/\ SomeClinical(all_patients') /\ ~SomeClinical(all_patients) =>
                /\ files = <<>> /\ pc = "loop" /\ pc' = "score"
                /\ ~SomeScores(all_patients') /\ stored = <<>>
          /\ SomeScores(all_patients') /\ ~SomeScores(all_patients) =>
                /\ pc = "score" /\ pc' = "store" /\ stored = <<>>
          /\ stored' # stored =>
                /\ pc = "store" /\ files = <<>>
                /\ stored' = <<all_patients>>]_vars

\* a run that merged, scored and stored: a stored record has clinical_data
\* and pathway_scores
C18_Witness ==
    /\ pc = "done"
    /\ Len(stored) = 1
    /\ \E j \in 1..Len(stored[1]) :
            HasClinical(stored[1][j]) /\ HasScores(stored[1][j])

\* C19: patient_id is unique within a cohort in what is persisted: the
\* collection holds at most one document for each pair of cancer_cohort and
\* patient_id
C19_UniquePerCohort ==
    \A a, b \in 1..Len(collection) :
        (/\ collection[a].cancer_cohort = collection[b].cancer_cohort
         /\ collection[a].patient_id = collection[b].patient_id) => a = b

----------------------------------------------------------------------------
(* Properties of the two calls on Python objects *)

HeapReturned == pc \in {"merge_returned", "score_returned"}

\* every object that existed when the call began is as it was: the input
\* list, its records with their keys, their gene_expressions dicts
InputUnchanged == \A a \in 1..Len(before) : heap[a] = before[a]

InItems == before[in_list].v

OutItems == heap[out_list].v

\* the records of the returned list are objects made by the call
OutputNew == \A j \in 1..Len(OutItems) : OutItems[j] \notin 1..Len(before)

\* output record j has the keys and values of input record j, and one key
\* more at most
OutputDerived ==
    /\ Len(OutItems) = Len(InItems)
    /\ \A j \in 1..Len(InItems) :
        LET old == before[InItems[j]].v
            new == heap[OutItems[j]].v
        IN /\ DOMAIN old \subseteq DOMAIN new
           /\ \A f \in DOMAIN old : new[f] = old[f]
           /\ Cardinality(DOMAIN new \ DOMAIN old) <= 1

\* C20 as stated: after merge_with_clinical_data or calculate_pathway_score
\* returns, the input list and every input record are as before the call,
\* and each output record is a new record derived from its input
C20_NeverSharesInput ==
    HeapReturned => InputUnchanged /\ OutputNew /\ OutputDerived

MergeSkipped == pc = "merge_returned" /\ (~clinical.read_ok \/ NoIdColumn)

\* C20 amended: the input objects are as before the call, however the call
\* ends; a merge without readable clinical table or without identifier
\* column returns the input list itself; every other return gives a new
\* list of new records, each a copy of its input record with one key added
\* at most
C20_InputUnchanged ==
    /\ InputUnchanged
    /\ MergeSkipped => out_list = in_list
    /\ HeapReturned /\ ~MergeSkipped =>
            /\ out_list \notin 1..Len(before)
            /\ OutputNew
            /\ OutputDerived

\* a merge that attached clinical_data to the copy of a record
C20_Witness ==
    /\ pc = "merge_returned"
    /\ InputUnchanged
    /\ out_list # in_list
    /\ \E j \in 1..Len(OutItems) :
            /\ HasClinical(heap[OutItems[j]].v)
            /\ ~HasClinical(heap[InItems[j]].v)

----------------------------------------------------------------------------
(* Further properties of process_tsv_file *)

\* b is path with its directories stripped
IsBasenameOf(b, path) ==
    /\ Len(b) <= Len(path)
    /\ b = SubSeq(path, Len(path) - Len(b) + 1, Len(path))
    /\ "/" \notin Range(b)
    /\ Len(b) < Len(path) => path[Len(path) - Len(b)] = "/"

\* c is the part of b before its first "_", all of b without "_"
IsFirstFieldOf(c, b) ==
    /\ Len(c) <= Len(b)
    /\ c = SubSeq(b, 1, Len(c))
    /\ "_" \notin Range(c)
    /\ Len(c) < Len(b) => b[Len(c) + 1] = "_"

\* C21: the cancer_cohort of every record of a file is the part of the
\* file's basename, directories stripped, before the first "_"; the whole
\* basename with its extension when it has no "_"
C21_CohortFromBasename ==
    Returned =>
        \A j \in 1..Len(patients) :
            \E n \in 0..Len(file.path) :
                LET b == SubSeq(file.path, n + 1, Len(file.path))
                IN /\ IsBasenameOf(b, file.path)
                   /\ IsFirstFieldOf(patients[j].cancer_cohort, b)

\* records of a file in a directory whose basename has an extension and no
\* "_"
C21_Witness ==
    /\ Returned
    /\ file.path = PathE
    /\ patients # <<>>
    /\ \A j \in 1..Len(patients) : patients[j].cancer_cohort = <<"T", ".", "t">>

FirstColumnLabels == {FirstColumn[r].s : r \in 1..Len(FirstColumn)}

\* C22: in a standard-format table whose first column holds the gene
\* labels, rows matching no target gene never contribute: each patient
\* column yields one record, whose gene_expressions holds exactly the target
\* genes present as rows
C22_OnlyTargetRows ==
    (Returned /\ ReadsOk /\ format = "standard"
        /\ \E l \in FirstColumnLabels : MatchesSomeGene(l)) =>
        /\ Len(patients) = Len(file.table.columns) - 1
        /\ \A j \in 1..Len(patients) :
            /\ patients[j].patient_id = StrV(file.table.columns[j + 1])
            /\ DOMAIN patients[j].gene_expressions \subseteq TargetSet
            /\ TargetSet \cap FirstColumnLabels
                    \subseteq DOMAIN patients[j].gene_expressions
            /\ \A g \in DOMAIN patients[j].gene_expressions :
                    \E l \in FirstColumnLabels : Contains(Upper(l), Upper(g))

\* the labels the file's strategy has selected: selected_genes in the TCGA
\* path, the gene column of filtered_df in the standard path
SelectedLabels ==
    IF format = "tcga" THEN Range(selected_genes)
    ELSE {filtered_df.data[r][1].s : r \in 1..Len(filtered_df.data)}

\* label l stands for target gene g: equal to it ignoring case, or, when no
\* selected label is equal to a target gene ignoring case, containing it
ResolvedTo(l, g) ==
    IF \E m \in SelectedLabels : \E h \in TargetSet : Upper(m) = Upper(h)
    THEN Upper(l) = Upper(g)
    ELSE Contains(Upper(l), Upper(g))

\* C23: the resolved gene set is a mapping: each target gene is resolved to
\* at most one label of the file, whatever the strategy, and a selected
\* label stands for a target gene
C23_ResolvedIsMapping ==
    (Returned /\ ReadsOk /\ format \in {"tcga", "standard"}) =>
        /\ \A g \in TargetSet :
                Cardinality({l \in SelectedLabels : ResolvedTo(l, g)}) <= 1
        /\ \A l \in SelectedLabels : \E g \in TargetSet : ResolvedTo(l, g)

\* the labels among which the file's strategy looks for the target genes
SearchedLabels ==
    IF format = "tcga"
    THEN {df.index[r].s : r \in {m \in 1..Len(df.index) : IsStr(df.index[m])}}
    ELSE FirstColumnLabels

EqualsSomeGene(l) == \E g \in TargetSet : Upper(l) = Upper(g)

\* C24: substring matching is a last resort: whenever some label is equal
\* to a target gene, exactly or ignoring case, no label that merely contains
\* a target symbol is selected
C24_SubstringLastResort ==
    (Returned /\ ReadsOk /\ format \in {"tcga", "standard"}
        /\ \E l \in SearchedLabels : EqualsSomeGene(l)) =>
        \A l \in SelectedLabels : EqualsSomeGene(l)

\* a file with a label equal to a target gene ignoring case and a label
\* that merely contains one: the first is selected, the second is not
C24_Witness ==
    /\ Returned /\ ReadsOk /\ format = "standard"
    /\ ATM_lower \in SearchedLabels /\ ATM_472 \in SearchedLabels
    /\ ATM_lower \in SelectedLabels /\ ATM_472 \notin SelectedLabels
    /\ patients # <<>>

----------------------------------------------------------------------------
(* Further properties of process_and_store_data *)

\* process_tsv_file(f.path) as a function of the file alone
ProcessedAlone(f) ==
    LET sample == read_tsv_file(f.table, f.sniff_ok, SniffRows)
        full == read_tsv_file(f.table, f.full_ok, -1)
        cohort == CohortName(f.path)
        d == TcgaIndexed(full.df)
        sel == SelectedGenes(d)
        gd == Loc(d, sel)
        filtered == extract_gene_expressions(full.df)
    IN IF sample.none \/ full.none THEN <<>>
       ELSE IF IsTcgaFormat(sample.df)
       THEN IF sel = <<>> THEN <<>>
            ELSE BatchPatients(gd, sel,
                    BatchColumns(Len(gd.columns), 0, Len(gd.columns)), cohort)
       ELSE IF IsEmpty(filtered) THEN <<>>
       ELSE transform_to_patient_centric(filtered, cohort)

\* C25: processing is stateless across invocations: the records produced
\* for a file are those it gives when processed alone, whatever files were
\* processed before it and whether or not it was processed before
C25_Stateless ==
    \A k \in 1..Len(results) :
        /\ results[k].patients = ProcessedAlone(results[k].file)
        /\ \A m \in 1..Len(results) :
                results[m].file = results[k].file
                    => results[m].patients = results[k].patients

\* a file processed a second time in one run, with records both times
C25_Witness ==
    /\ Len(results) = 2
    /\ results[1].file = results[2].file
    /\ results[1].patients # <<>>
    /\ results[2].patients = results[1].patients

----------------------------------------------------------------------------
(* Properties of the format choice *)

\* the table of the file, whole, as a DataFrame
WholeTable ==
    [index   |-> RangeIndex(Len(file.table.data)),
     columns |-> [c \in 1..Len(file.table.columns) |-> StrV(file.table.columns[c])],
     data    |-> file.table.data]

\* the full table has a column named sample, or more than 100 columns
WholeTableIsTcga ==
    \/ Sample \in Range(file.table.columns)
    \/ Len(file.table.columns) > WideColumns

\* the records either path builds from the whole table
RecordsOfWholeTable ==
    LET cohort == CohortName(file.path)
        d == TcgaIndexed(WholeTable)
        sel == SelectedGenes(d)
        gd == Loc(d, sel)
        filtered == extract_gene_expressions(WholeTable)
    IN IF WholeTableIsTcga
       THEN IF sel = <<>> THEN <<>>
            ELSE BatchPatients(gd, sel,
                    BatchColumns(Len(gd.columns), 0, Len(gd.columns)), cohort)
       ELSE IF IsEmpty(filtered) THEN <<>>
       ELSE transform_to_patient_centric(filtered, cohort)

Routed == format \in {"tcga", "standard"}

\* C27: a file is routed to the TCGA path if and only if some column is
\* named exactly sample or the number of columns, the identifier column
\* included, is greater than 100; 100 columns without a sample column go to
\* the standard path and 101 columns to the TCGA path
C27_RoutingRule ==
    Routed =>
        /\ format = "tcga" <=>
                \/ \E c \in 1..Len(file.table.columns) : file.table.columns[c] = Sample
                \/ Len(file.table.columns) >= WideColumns + 1
        /\ Len(file.table.columns) = WideColumns
              /\ Sample \notin Range(file.table.columns) => format = "standard"
        /\ Len(file.table.columns) = WideColumns + 1 => format = "tcga"

\* a table of exactly 100 columns, none named sample, on the standard path
C27_Witness ==
    /\ Routed
    /\ Len(file.table.columns) = WideColumns
    /\ Sample \notin Range(file.table.columns)
    /\ format = "standard"

\* a table of 101 columns, none named sample, on the TCGA path
C27_Witness101 ==
    /\ Routed
    /\ Len(file.table.columns) = WideColumns + 1
    /\ Sample \notin Range(file.table.columns)
    /\ format = "tcga"

----------------------------------------------------------------------------
(* Properties of the chain from the file to the scores *)

\* the label differs from the pathway gene in letter case only
DiffersInCaseOnly(l, g) == l # g /\ Upper(l) = Upper(g)

\* C28: a pathway gene whose label in the file differs from the canonical
\* symbol in letter case only and whose cell is numeric contributes to the
\* mean of its group once the records of process_tsv_file are scored: the
\* score of that group is not None
C28_CaseInsensitiveGeneScores ==
    \A j \in 1..Len(all_patients) :
        HasScores(all_patients[j]) =>
            \A w \in Pathways : \A g \in Range(pathway_genes[w]) :
                \A l \in DOMAIN all_patients[j].gene_expressions :
                    /\ DiffersInCaseOnly(l, g)
                    /\ all_patients[j].gene_expressions[l].k = "num"
                    => ~all_patients[j].pathway_scores[w].none

----------------------------------------------------------------------------
(* Properties of the choice among several clinical rows *)

\* the clinical row r as the dict attached to a record
ClinicalRowDict(r) ==
    [l \in Range(clinical.table.columns) |->
        clinical.table.data[r][CHOOSE c \in 1..Len(clinical.table.columns) :
                                    clinical.table.columns[c] = l]]

\* the rows holding the identifier x
RowsOfId(x) == {r \in ClinicalRows : ClinicalId(r).k # "nan" /\ ClinicalId(r) = x}

Earliest(S) == CHOOSE r \in S : \A q \in S : r <= q

Latest(S) == CHOOSE r \in S : \A q \in S : q <= r

\* C29: the order of the clinical rows decides: among several identifiers
\* in a containment relation with the patient id, none being equal, the
\* attached row is that of the identifier occurring earliest in the table;
\* among several rows with the same identifier, the attached data is that
\* of the last one
C29_TieBreakByRowOrder ==
    Merged /\ clinical.read_ok /\ id_column # <<>> =>
        \A j \in 1..Len(arg) :
            LET pid == arg[j].patient_id
                rec == ret.out[j]
            IN /\ ExactRows(pid) = {} /\ ContainRows(pid) # {} =>
                    /\ HasClinical(rec)
                    /\ rec.clinical_data[id_column] = ClinicalId(Earliest(ContainRows(pid)))
               /\ HasClinical(rec) =>
                    /\ RowsOfId(rec.clinical_data[id_column]) # {}
                    /\ rec.clinical_data =
                          ClinicalRowDict(Latest(RowsOfId(rec.clinical_data[id_column])))

\* two different identifiers are in a containment relation with a patient
\* id, none is equal, and a row is attached
C29_Witness ==
    /\ Merged /\ clinical.read_ok /\ id_column # <<>>
    /\ \E j \in 1..Len(arg) :
            /\ ExactRows(arg[j].patient_id) = {}
            /\ \E r, q \in ContainRows(arg[j].patient_id) : ClinicalId(r) # ClinicalId(q)
            /\ HasClinical(ret.out[j])

\* two rows of different data hold the attached identifier
C29_WitnessSameId ==
    /\ Merged /\ clinical.read_ok /\ id_column # <<>>
    /\ \E j \in 1..Len(arg) :
            /\ HasClinical(ret.out[j])
            /\ \E r, q \in RowsOfId(ret.out[j].clinical_data[id_column]) :
                    ClinicalRowDict(r) # ClinicalRowDict(q)

----------------------------------------------------------------------------
(* Properties of the indexes *)

\* the first get_collection call created both indexes
FirstCallCreatedBoth ==
    /\ requests # <<>>
    /\ requests[1].issued = <<"cancer_cohort_idx", "patient_id_idx">>

\* C30: once a first get_collection call has created the cancer_cohort and
\* patient_id indexes, no later get_collection or create_indexes call issues
\* a create_index request
C30_IndexesCreatedOnce ==
    FirstCallCreatedBoth =>
        \A k \in 2..Len(requests) : requests[k].issued = <<>>

====
